---- MODULE Spec2Model ----
(***************************************************************************)
(* Model of dysart/measurement/dummy_devices.py: the simulated devices     *)
(* Fizzer, Fizzmeter and Carbonator over the base class Device.            *)
(*                                                                         *)
(* Time.  time.time() is the variable now, an integer number of seconds    *)
(* that never decreases.  time.sleep(d) moves now forward by d or more.    *)
(*                                                                         *)
(* Real numbers.  A carbonation is a real number of the form               *)
(*     SUM over d of c[d] * exp(-d / time_constant_sec)                    *)
(* and is represented by its coefficients c : Exps -> Int.  For distinct   *)
(* d the numbers exp(-d/tau) are linearly independent over the rationals,  *)
(* so two carbonations are equal as reals exactly when their coefficient   *)
(* functions are equal.  Multiplying by np.exp(-dt/tau) moves every        *)
(* coefficient dt places up.  Arithmetic is that of the reals; rounding    *)
(* of IEEE doubles is not modelled.                                        *)
(*                                                                         *)
(* Randomness.  np.random.normal(0, sigma) is sigma * z for a standard     *)
(* normal z; z is drawn from Normals.  With sigma = 0 the sample is 0.     *)
(***************************************************************************)
EXTENDS Integers, FiniteSets, Sequences, TLC

\* ---- bounds of the model ----
MaxTime == 3
MaxAdds == 2

\* ---- program constants ----
day_sec == 86400
DefaultDecalRate == 1
DefaultCalDelay == 1

\* cal_time of an object on which refresh has never stored a timestamp
\* (the attribute does not exist)
Unset == -1

Exps == 0..MaxTime
Times == 0..MaxTime

\* inputs of the constructors and operations
Carbonations == {1, 2}
TimeConstantDays == {1, 2}
ResponseDelays == {0, 1}
Uncertainties == {0, 1}
DecalRateDays == {0, 1}
Amounts == {1, 2}
Normals == {-1, 0, 1}

\* ---- real numbers of the form SUM c[d] * exp(-d/tau) ----
Zero == [d \in Exps |-> 0]

Scalar(a) == [d \in Exps |-> IF d = 0 THEN a ELSE 0]

Plus(c1, c2) == [d \in Exps |-> c1[d] + c2[d]]

\* c * np.exp(-dt / time_constant_sec)
MulExp(c, dt) == [d \in Exps |-> IF d >= dt /\ d - dt \in Exps THEN c[d - dt] ELSE 0]

\* np.random.normal(0, sigma), for the standard normal draw z
normal(sigma, z) == sigma * z

\* 2/(1 + np.exp(-x)) - 1 is strictly increasing, hence one-to-one: the
\* value is represented by its argument
shifted_logistic(x) == [fn |-> "shifted_logistic", x |-> x]

\* ---- return values ----
NoVal == [kind |-> "none"]
CarbVal(c) == [kind |-> "carbonation", c |-> c]
FizzVal(f) == [kind |-> "fizziness", f |-> f]
NumVal(n) == [kind |-> "number", n |-> n]

\* ---- class Device ----
\* Device.refresh(self, t_new)
DeviceRefresh(self, t_new) == [self EXCEPT !.cal_time = t_new]

\* the two assignments of Device.__init__, before its self.refresh() call,
\* which dispatches to the subclass
DeviceInitFields(self, decal_rate, cal_delay) ==
    [self EXCEPT !.decal_rate = decal_rate, !.cal_delay = cal_delay]

\* ---- class Fizzer ----
NoFizzer ==
    [made |-> FALSE, carbonation |-> Zero, time_constant_sec |-> 0,
     decal_rate |-> 0, cal_delay |-> 0, cal_time |-> Unset]

\* Fizzer.refresh(self), time.time() = t_new
FizzerRefresh(self, t_new) == DeviceRefresh(self, t_new)

\* Fizzer.__init__(self, carbonation, time_constant_days)
FizzerInit(carbonation, time_constant_days, t_new) ==
    LET s1 == [NoFizzer EXCEPT !.made = TRUE,
                               !.carbonation = Scalar(carbonation),
                               !.time_constant_sec = time_constant_days * day_sec]
        s2 == DeviceInitFields(s1, 0, DefaultCalDelay)
    IN  FizzerRefresh(s2, t_new)

\* Fizzer.add_carbonation(self, carbonation)
FizzerAddCarbonation(self, carbonation, t_new) ==
    FizzerRefresh([self EXCEPT !.carbonation = Plus(@, Scalar(carbonation))], t_new)

\* get_carbonation that returns the decayed value without storing it
FizzerGetCarbonation_NoStore(self, t_new) ==
    LET dt == t_new - self.cal_time
        carbonation == MulExp(self.carbonation, dt)
    IN  [self |-> DeviceRefresh(self, t_new), dt |-> dt, val |-> carbonation]

\* get_carbonation that decays over the clock value instead of the elapsed time
FizzerGetCarbonation_AbsTime(self, t_new) ==
    LET dt == t_new
        carbonation == MulExp(self.carbonation, dt)
    IN  [self |-> DeviceRefresh([self EXCEPT !.carbonation = carbonation], t_new),
         dt |-> dt,
         val |-> carbonation]

\* get_carbonation that omits super().refresh(t_new)
FizzerGetCarbonation_NoRefresh(self, t_new) ==
    LET dt == t_new - self.cal_time
        carbonation == MulExp(self.carbonation, dt)
    IN  [self |-> [self EXCEPT !.carbonation = carbonation],
         dt |-> dt,
         val |-> carbonation]

\* Fizzer.get_carbonation(self): the object afterwards and the value returned
FizzerGetCarbonation(self, t_new) ==
    LET dt == t_new - self.cal_time
        carbonation == MulExp(self.carbonation, dt)
    IN  [self |-> DeviceRefresh([self EXCEPT !.carbonation = carbonation], t_new),
         dt |-> dt,
         val |-> carbonation]

\* Fizzer.get_fizziness(self)
FizzerGetFizziness(self, t_new) ==
    LET r == FizzerGetCarbonation(self, t_new)
    IN  [self |-> r.self, dt |-> r.dt, val |-> shifted_logistic(r.val)]

\* ---- class Fizzmeter ----
\* made: the object was allocated and __init__ ran on it, to its end or to
\* the statement that raised
NoFizzmeter ==
    [made |-> FALSE, response_delay |-> 0, uncertainty |-> 0, bias |-> 0,
     decal_rate |-> 0, cal_delay |-> 0, cal_time |-> Unset]

\* Fizzmeter.refresh that omits super().refresh(t_new)
FizzmeterRefresh_NoSuper(self, t_new, z) ==
    IF self.cal_time = Unset
    THEN [self |-> self, exc |-> "AttributeError", dt |-> 0]
    ELSE LET dt == t_new - self.cal_time
             s1 == [self EXCEPT !.bias = @ + normal(dt * self.decal_rate, z)]
         IN  [self |-> s1, exc |-> "none", dt |-> dt]

\* Fizzmeter.refresh(self), time.time() = t_new, standard normal draw z.
\* Reading self.cal_time raises AttributeError while the attribute is unset.
FizzmeterRefresh(self, t_new, z) ==
    IF self.cal_time = Unset
    THEN [self |-> self, exc |-> "AttributeError", dt |-> 0]
    ELSE LET dt == t_new - self.cal_time
             s1 == [self EXCEPT !.bias = @ + normal(dt * self.decal_rate, z)]
         IN  [self |-> DeviceRefresh(s1, t_new), exc |-> "none", dt |-> dt]

\* Fizzmeter.__init__(self, response_delay, uncertainty, decal_rate_days)
FizzmeterInit(response_delay, uncertainty, decal_rate_days, t_new, z) ==
    LET s1 == [NoFizzmeter EXCEPT !.made = TRUE,
                                  !.response_delay = response_delay,
                                  !.uncertainty = uncertainty,
                                  !.bias = 0]
        decal_rate_sec == decal_rate_days * day_sec
        s2 == DeviceInitFields(s1, decal_rate_sec, DefaultCalDelay)
    IN  FizzmeterRefresh(s2, t_new, z)

\* measure that refreshes before it sleeps
FizzmeterMeasure_RefreshFirst(self, fz, t_call, t_wake, z, n) ==
    LET r == FizzmeterRefresh(self, t_call, z)
        noise == normal(self.uncertainty, n)
    IN  IF r.exc # "none"
        THEN [self |-> r.self, exc |-> r.exc, dt |-> r.dt, noise |-> 0,
              t_refresh |-> Unset, val |-> NoVal]
        ELSE [self |-> r.self, exc |-> "AttributeError", dt |-> r.dt,
              noise |-> noise, t_refresh |-> t_call, val |-> NoVal]

\* Fizzmeter.measure(self, fizzer): called at t_call, time.sleep returns at
\* t_wake, z is the draw of refresh and n the draw of the noise.  A Fizzer
\* has no attribute fizziness: reading it raises AttributeError.
FizzmeterMeasure(self, fz, t_call, t_wake, z, n) ==
    LET r == FizzmeterRefresh(self, t_wake, z)
        noise == normal(self.uncertainty, n)
    IN  IF r.exc # "none"
        THEN [self |-> r.self, exc |-> r.exc, dt |-> r.dt, noise |-> 0,
              t_refresh |-> Unset, val |-> NoVal]
        ELSE [self |-> r.self, exc |-> "AttributeError", dt |-> r.dt,
              noise |-> noise, t_refresh |-> t_wake, val |-> NoVal]

\* Fizzmeter.calibrate(self): time.sleep returns at t_wake
FizzmeterCalibrate(self, t_wake, z) ==
    FizzmeterRefresh([self EXCEPT !.bias = 0], t_wake, z)

\* ---- class Carbonator ----
NoCarbonator ==
    [made |-> FALSE, response_delay |-> 0, uncertainty |-> 0,
     decal_rate |-> 0, cal_delay |-> 0, cal_time |-> Unset]

\* Carbonator.refresh(self)
CarbonatorRefresh(self, t_new) == DeviceRefresh(self, t_new)

\* Carbonator.__init__(self, response_delay, uncertainty); the default
\* decal_rate 1e-3 of Device.__init__ is kept as DefaultDecalRate (in 1/1000)
CarbonatorInit(response_delay, uncertainty, t_new) ==
    LET s1 == DeviceInitFields([NoCarbonator EXCEPT !.made = TRUE],
                               DefaultDecalRate, DefaultCalDelay)
        s2 == CarbonatorRefresh(s1, t_new)
    IN  [s2 EXCEPT !.response_delay = response_delay, !.uncertainty = uncertainty]

\* Carbonator.get_uncertainty(self)
CarbonatorGetUncertainty(self, t_new) ==
    [self |-> CarbonatorRefresh(self, t_new), val |-> self.uncertainty]

\* carbonate that passes the noisy amount on to fizzer.add_carbonation
CarbonatorCarbonate_Adds(self, fz, carbonation, t_new, z) ==
    LET r == CarbonatorGetUncertainty(self, t_new)
        noise == normal(r.val, z)
    IN  [self |-> r.self, fizzer |-> FizzerAddCarbonation(fz, carbonation + noise, t_new)]

\* Carbonator.carbonate(self, fizzer, carbonation): the carbonator and the
\* fizzer afterwards; the noise sample is a local that is dropped
CarbonatorCarbonate(self, fz, carbonation, t_new, z) ==
    LET r == CarbonatorGetUncertainty(self, t_new)
        noise == normal(r.val, z)
    IN  [self |-> r.self, fizzer |-> fz]

\* ---- the program state ----
\* now: time.time(); fizzer, meter, carbonator: the three objects of the
\* caller; ret: what the last call returned or raised, with the locals of
\* interest; hist: history of the fizzer (what entered it and when, its
\* state at the last write), used only to state properties
VARIABLES now, fizzer, meter, carbonator, ret, hist

vars == <<now, fizzer, meter, carbonator, ret, hist>>

NoRet ==
    [op |-> "none", exc |-> "none", val |-> NoVal, t_call |-> 0, dt |-> 0,
     noise |-> 0, t_refresh |-> Unset]

Ret(op, exc, val, dt) ==
    [NoRet EXCEPT !.op = op, !.exc = exc, !.val = val, !.t_call = now, !.dt = dt]

NoHist ==
    [adds |-> 0, entered |-> [t \in Times |-> 0], refreshed |-> FALSE,
     snapC |-> Zero, snapT |-> 0, reads |-> 0, firstRead |-> 0]

\* the fizzer was written (constructed, added to, refreshed) at time now
Written(h, c) == [h EXCEPT !.snapC = c, !.snapT = now, !.reads = 0, !.firstRead = 0]

\* the fizzer was read at time now
ReadAt(h) ==
    [h EXCEPT !.reads = IF @ < 2 THEN @ + 1 ELSE @,
              !.firstRead = IF h.reads = 0 THEN now ELSE @]

Init ==
    /\ now = 0
    /\ fizzer = NoFizzer
    /\ meter = NoFizzmeter
    /\ carbonator = NoCarbonator
    /\ ret = NoRet
    /\ hist = NoHist

\* the clock advances between calls
Tick ==
    /\ now < MaxTime
    /\ now' = now + 1
    /\ UNCHANGED <<fizzer, meter, carbonator, ret, hist>>

\* ---- calls on the Fizzer ----
NewFizzer ==
    /\ ~fizzer.made
    /\ \E c \in Carbonations, tc \in TimeConstantDays :
          /\ fizzer' = FizzerInit(c, tc, now)
          /\ hist' = Written([hist EXCEPT !.entered[now] = c], Scalar(c))
    /\ ret' = Ret("Fizzer", "none", NoVal, 0)
    /\ UNCHANGED <<now, meter, carbonator>>

AddCarbonation ==
    /\ fizzer.made
    /\ hist.adds < MaxAdds
    /\ \E a \in Amounts :
          /\ fizzer' = FizzerAddCarbonation(fizzer, a, now)
          /\ hist' = Written([hist EXCEPT !.adds = @ + 1, !.entered[now] = @ + a],
                             fizzer'.carbonation)
    /\ ret' = Ret("add_carbonation", "none", NoVal, 0)
    /\ UNCHANGED <<now, meter, carbonator>>

RefreshFizzer ==
    /\ fizzer.made
    /\ fizzer' = FizzerRefresh(fizzer, now)
    /\ hist' = Written([hist EXCEPT !.refreshed = TRUE], fizzer.carbonation)
    /\ ret' = Ret("Fizzer.refresh", "none", NoVal, 0)
    /\ UNCHANGED <<now, meter, carbonator>>

GetCarbonation ==
    /\ fizzer.made
    /\ LET r == FizzerGetCarbonation(fizzer, now)
       IN  /\ fizzer' = r.self
           /\ ret' = Ret("get_carbonation", "none", CarbVal(r.val), r.dt)
    /\ hist' = ReadAt(hist)
    /\ UNCHANGED <<now, meter, carbonator>>

GetFizziness ==
    /\ fizzer.made
    /\ LET r == FizzerGetFizziness(fizzer, now)
       IN  /\ fizzer' = r.self
           /\ ret' = Ret("get_fizziness", "none", FizzVal(r.val), r.dt)
    /\ hist' = ReadAt(hist)
    /\ UNCHANGED <<now, meter, carbonator>>

\* ---- calls on the Fizzmeter ----
\* Fizzmeter(...): __init__ raises from its refresh; the object keeps the
\* attributes assigned before the raise
NewFizzmeter ==
    /\ ~meter.made
    /\ \E rd \in ResponseDelays, u \in Uncertainties, dr \in DecalRateDays, z \in Normals :
          LET r == FizzmeterInit(rd, u, dr, now, z)
          IN  /\ meter' = r.self
              /\ ret' = Ret("Fizzmeter", r.exc, NoVal, r.dt)
    /\ UNCHANGED <<now, fizzer, carbonator, hist>>

\* Device.refresh(meter, time.time()): the base-class method applied to the
\* Fizzmeter; the only code that stores a cal_time without reading one
BaseRefreshFizzmeter ==
    /\ meter.made
    /\ meter' = DeviceRefresh(meter, now)
    /\ ret' = Ret("Device.refresh", "none", NoVal, 0)
    /\ UNCHANGED <<now, fizzer, carbonator, hist>>

RefreshFizzmeter ==
    /\ meter.made
    /\ \E z \in Normals :
          LET r == FizzmeterRefresh(meter, now, z)
          IN  /\ meter' = r.self
              /\ ret' = Ret("Fizzmeter.refresh", r.exc, NoVal, r.dt)
    /\ UNCHANGED <<now, fizzer, carbonator, hist>>

Measure ==
    /\ meter.made
    /\ fizzer.made
    /\ \E t_wake \in Times, z \in Normals, n \in Normals :
          /\ t_wake >= now + meter.response_delay
          /\ LET r == FizzmeterMeasure(meter, fizzer, now, t_wake, z, n)
             IN  /\ meter' = r.self
                 /\ ret' = [Ret("measure", r.exc, r.val, r.dt)
                               EXCEPT !.noise = r.noise, !.t_refresh = r.t_refresh]
          /\ now' = t_wake
    /\ UNCHANGED <<fizzer, carbonator, hist>>

Calibrate ==
    /\ meter.made
    /\ \E t_wake \in Times, z \in Normals :
          /\ t_wake >= now + meter.cal_delay
          /\ LET r == FizzmeterCalibrate(meter, t_wake, z)
             IN  /\ meter' = r.self
                 /\ ret' = Ret("calibrate", r.exc, NoVal, r.dt)
          /\ now' = t_wake
    /\ UNCHANGED <<fizzer, carbonator, hist>>

\* ---- calls on the Carbonator ----
NewCarbonator ==
    /\ ~carbonator.made
    /\ \E rd \in ResponseDelays, u \in Uncertainties :
          carbonator' = CarbonatorInit(rd, u, now)
    /\ ret' = Ret("Carbonator", "none", NoVal, 0)
    /\ UNCHANGED <<now, fizzer, meter, hist>>

RefreshCarbonator ==
    /\ carbonator.made
    /\ carbonator' = CarbonatorRefresh(carbonator, now)
    /\ ret' = Ret("Carbonator.refresh", "none", NoVal, 0)
    /\ UNCHANGED <<now, fizzer, meter, hist>>

GetUncertainty ==
    /\ carbonator.made
    /\ LET r == CarbonatorGetUncertainty(carbonator, now)
       IN  /\ carbonator' = r.self
           /\ ret' = Ret("get_uncertainty", "none", NumVal(r.val), 0)
    /\ UNCHANGED <<now, fizzer, meter, hist>>

Carbonate ==
    /\ carbonator.made
    /\ fizzer.made
    /\ \E a \in Amounts, z \in Normals :
          LET r == CarbonatorCarbonate(carbonator, fizzer, a, now, z)
          IN  /\ carbonator' = r.self
              /\ fizzer' = r.fizzer
    /\ ret' = Ret("carbonate", "none", NoVal, 0)
    /\ UNCHANGED <<now, meter, hist>>

\* ---- specifications ----
\* The three classes share no state: Fizzmeter.measure and
\* Carbonator.carbonate take a Fizzer and leave it as it is.  The caller
\* either works on the Fizzer alone, or builds a Fizzer and works on one
\* instrument.
FizzerAlone == ~meter.made /\ ~carbonator.made

Untouched == hist.adds = 0 /\ ~hist.refreshed /\ hist.reads = 0

MeterSession == Untouched /\ ~carbonator.made

CarbonatorSession == Untouched /\ ~meter.made

Next ==
    \/ Tick
    \/ NewFizzer
    \/ FizzerAlone /\ AddCarbonation
    \/ FizzerAlone /\ RefreshFizzer
    \/ FizzerAlone /\ GetCarbonation
    \/ FizzerAlone /\ GetFizziness
    \/ MeterSession /\ NewFizzmeter
    \/ MeterSession /\ BaseRefreshFizzmeter
    \/ MeterSession /\ RefreshFizzmeter
    \/ MeterSession /\ Measure
    \/ MeterSession /\ Calibrate
    \/ CarbonatorSession /\ NewCarbonator
    \/ CarbonatorSession /\ RefreshCarbonator
    \/ CarbonatorSession /\ GetUncertainty
    \/ CarbonatorSession /\ Carbonate

Spec == Init /\ [][Next]_vars

\* the Fizzer alone
NextFizzer ==
    \/ Tick
    \/ NewFizzer
    \/ AddCarbonation
    \/ RefreshFizzer
    \/ GetCarbonation
    \/ GetFizziness

SpecFizzer == Init /\ [][NextFizzer]_vars

\* a Fizzmeter and the Fizzer it measures
NextMeter ==
    \/ Tick
    \/ NewFizzer
    \/ NewFizzmeter
    \/ BaseRefreshFizzmeter
    \/ RefreshFizzmeter
    \/ Measure
    \/ Calibrate

SpecMeter == Init /\ [][NextMeter]_vars

\* a Carbonator and the Fizzer it is pointed at
NextCarbonator ==
    \/ Tick
    \/ NewFizzer
    \/ AddCarbonation
    \/ GetCarbonation
    \/ NewCarbonator
    \/ RefreshCarbonator
    \/ GetUncertainty
    \/ Carbonate

SpecCarbonator == Init /\ [][NextCarbonator]_vars

\* ---- properties ----

\* C1: when calibrate() returns, the bias stored in the Fizzmeter is exactly 0
C1_CalibrateZeroesBias ==
    (ret.op = "calibrate" /\ ret.exc = "none") => meter.bias = 0

\* C2: constructing a Fizzer, a Fizzmeter or a Carbonator completes without
\* error, with decal_rate and cal_delay stored and cal_time the time of
\* construction
C2_InitSetsCalTime ==
    /\ ret.op = "Fizzer" =>
          /\ ret.exc = "none"
          /\ fizzer.decal_rate = 0 /\ fizzer.cal_delay = DefaultCalDelay
          /\ fizzer.cal_time = ret.t_call
    /\ ret.op = "Fizzmeter" =>
          /\ ret.exc = "none"
          /\ \E dr \in DecalRateDays : meter.decal_rate = dr * day_sec
          /\ meter.cal_delay = DefaultCalDelay
          /\ meter.cal_time = ret.t_call
    /\ ret.op = "Carbonator" =>
          /\ ret.exc = "none"
          /\ carbonator.decal_rate = DefaultDecalRate
          /\ carbonator.cal_delay = DefaultCalDelay
          /\ carbonator.cal_time = ret.t_call

\* C3: measure(fizzer) on a Fizzmeter that has a calibration timestamp
\* completes and returns fizziness + bias + noise
C3_MeasureReturnsReading ==
    (ret.op = "measure" /\ ret.t_refresh # Unset) =>
        /\ ret.exc = "none"
        /\ ret.val = [kind |-> "reading",
                      fizziness |-> shifted_logistic(fizzer.carbonation),
                      bias |-> meter.bias,
                      noise |-> ret.noise]

\* C4: get_carbonation() after dt seconds returns c0 * exp(-dt/time_constant),
\* stores the returned value and sets cal_time to the time of the call
C4_GetCarbonationDecays ==
    [][GetCarbonation =>
         LET dt == now - fizzer.cal_time
             c0 == fizzer.carbonation
         IN  /\ dt >= 0
             /\ ret'.val.kind = "carbonation"
             /\ \A d \in Exps :
                   ret'.val.c[d] = IF d >= dt THEN c0[d - dt] ELSE 0
             /\ fizzer'.carbonation = ret'.val.c
             /\ fizzer'.cal_time = now]_vars

C4_Witness ==
    /\ ret.op = "get_carbonation"
    /\ ret.dt > 0
    /\ ret.val.c # Zero
    /\ hist.adds > 0

\* C5: a get_carbonation() call at the clock value of cal_time returns the
\* stored carbonation and changes nothing, and so returns what a
\* get_carbonation() call at the same clock value returned just before it
C5_GetCarbonationIdempotent ==
    [][(GetCarbonation /\ fizzer.cal_time = now) =>
         /\ fizzer' = fizzer
         /\ ret'.val = CarbVal(fizzer.carbonation)
         /\ (ret.op = "get_carbonation" /\ ret.t_call = now) => ret'.val = ret.val]_vars

C5_Witness ==
    /\ ret.op = "get_carbonation"
    /\ ret.dt = 0
    /\ hist.reads >= 2
    /\ hist.firstRead = ret.t_call
    /\ hist.snapT < ret.t_call

\* C6: cal_time of every device never decreases once set, and every
\* operation that applies drift leaves cal_time at the clock value at which
\* the drift was computed
C6_CalTimeMonotone ==
    [][/\ fizzer.cal_time # Unset => fizzer'.cal_time >= fizzer.cal_time
       /\ meter.cal_time # Unset => meter'.cal_time >= meter.cal_time
       /\ carbonator.cal_time # Unset => carbonator'.cal_time >= carbonator.cal_time
       /\ (GetCarbonation \/ GetFizziness) =>
             fizzer'.cal_time = now' /\ ret'.dt = now' - fizzer.cal_time
       /\ ((RefreshFizzmeter \/ Measure \/ Calibrate) /\ meter.cal_time # Unset) =>
             meter'.cal_time = now' /\ ret'.dt = now' - meter.cal_time]_vars

C6_Witness ==
    /\ ret.op = "calibrate"
    /\ ret.exc = "none"
    /\ ret.dt > 1
    /\ meter.cal_time = now

\* C7: measure() waits response_delay first: it ends, and refreshes, no
\* earlier than response_delay after it was called
C7_MeasureWaitsFirst ==
    [][Measure =>
         /\ now' >= now + meter.response_delay
         /\ ret'.t_refresh # Unset =>
               /\ ret'.t_refresh >= now + meter.response_delay
               /\ meter'.cal_time = ret'.t_refresh]_vars

C7_Witness ==
    /\ ret.op = "measure"
    /\ meter.response_delay > 0
    /\ ret.t_refresh # Unset
    /\ meter.cal_time >= ret.t_call + meter.response_delay

\* what entered the Fizzer, each amount decayed since it entered, at time t
Ideal(t) == [d \in Exps |-> IF d <= t THEN hist.entered[t - d] ELSE 0]

\* C8: with only add_carbonation and get_carbonation calls, get_carbonation
\* returns the initial carbonation and each added amount, each decayed over
\* the full time since it entered the Fizzer
C8_DecayAcrossAdd ==
    (ret.op = "get_carbonation" /\ ~hist.refreshed) => ret.val.c = Ideal(ret.t_call)

\* C9: carbonate(fizzer, amount) leaves the Fizzer and everything of the
\* Carbonator but its cal_time unchanged; cal_time becomes the current time
C9_CarbonateFrame ==
    [][Carbonate =>
         /\ fizzer' = fizzer
         /\ carbonator' = [carbonator EXCEPT !.cal_time = now]
         /\ now' = now]_vars

C9_Witness ==
    /\ ret.op = "carbonate"
    /\ carbonator.cal_time = ret.t_call
    /\ hist.snapT < ret.t_call
    /\ hist.adds > 0
    /\ fizzer.cal_time < ret.t_call

\* C10: get_carbonation() at t1 and then at t2 gives what one
\* get_carbonation() at t2 gives; the stored and returned carbonation after
\* any number of reads is the carbonation at the last write decayed once
\* over the whole time since
C10_ReadsCompose ==
    fizzer.made =>
        /\ fizzer.carbonation = MulExp(hist.snapC, fizzer.cal_time - hist.snapT)
        /\ ret.op = "get_carbonation" =>
              ret.val.c = MulExp(hist.snapC, ret.t_call - hist.snapT)
        /\ \A t1, t2 \in Times :
              (fizzer.cal_time <= t1 /\ t1 <= t2) =>
                  LET twice == FizzerGetCarbonation(FizzerGetCarbonation(fizzer, t1).self, t2)
                      once == FizzerGetCarbonation(fizzer, t2)
                  IN  twice.self = once.self /\ twice.val = once.val

C10_Witness ==
    /\ ret.op = "get_carbonation"
    /\ hist.reads >= 2
    /\ hist.snapT < hist.firstRead
    /\ hist.firstRead < ret.t_call

====
